---------------------------- MODULE Spec2Model ----------------------------
(***************************************************************************)
(* Model of web/script.js: the browser controller of HumanTranslator.      *)
(*                                                                         *)
(* The file holds two immediately-invoked closures (lines 1-247 and        *)
(* 249-397).  Both look up the same DOM elements and both register a       *)
(* DOMContentLoaded listener, so the page runs two controllers, IIFE 1     *)
(* (with the status bar) and IIFE 2 (without), against one DOM.            *)
(*                                                                         *)
(* Conventions                                                             *)
(*   - a text value (textarea value, translated text) is a sequence of     *)
(*     one-character strings, so that String.prototype.trim is computed;   *)
(*   - an optional JSON field is <<>> when absent (undefined) and <<v>>    *)
(*     when present with value v;                                          *)
(*   - a template literal is the sequence of its pieces;                   *)
(*   - a class name is the sequence of its space-separated tokens;         *)
(*   - the Arabic status-bar messages are written as ASCII glosses.        *)
(***************************************************************************)
EXTENDS Integers, Sequences, FiniteSets, TLC

\* Bounds of the model.
MaxEvents == 2
MaxTimers == 2
MaxOverlapClicks == 2

\* The two closures of the file.
IIFEs == {1, 2}

\* api (lines 2-8 and 250-256)
api == [health    |-> "/api/health",
        langs     |-> "/api/languages",
        translate |-> "/api/translate",
        stt       |-> "/api/speech-to-text",
        tts       |-> "/api/text-to-speech"]

----------------------------------------------------------------------------
\* JavaScript values

\* String.prototype.trim on a sequence of characters
RECURSIVE TrimLeft(_)
TrimLeft(s) == IF s # <<>> /\ Head(s) = " " THEN TrimLeft(Tail(s)) ELSE s

RECURSIVE TrimRight(_)
TrimRight(s) ==
    IF s # <<>> /\ s[Len(s)] = " " THEN TrimRight(SubSeq(s, 1, Len(s) - 1)) ELSE s

\* Mutant of trim: the text is submitted as typed.
trimNone(s) == s

trim(s) == TrimRight(TrimLeft(s))

\* a || b on strings: the empty string is falsy
OrText(a, b) == IF a # <<>> THEN a ELSE b

\* truthiness of an optional string field: undefined and "" are falsy
Truthy(f) == f # <<>> /\ f[1] # ""

\* Mutant of OrStr: only an absent field falls back (f ?? d).
OrStrNullish(f, d) == IF f # <<>> THEN f[1] ELSE d

\* f || d for an optional string field f and a string default d
OrStr(f, d) == IF Truthy(f) THEN f[1] ELSE d

----------------------------------------------------------------------------
\* What the user and the server can supply

\* texts the user can type into a textarea
UserTexts == { <<>>, <<" ">>, <<" ", "a", " ">> }

\* texts the server can return
ServerTexts == { <<"x">>, <<"y">> }

\* the display name the server gives each language code
LangName(code) ==
    CASE code = "en" -> "English"
      [] code = "fr" -> "French"
      [] code = "de" -> "German"
      [] OTHER       -> code

Entry(code) == <<code, LangName(code)>>

\* language maps the server can return, as Object.entries lists them
LangMaps == { <<>>,
              <<Entry("fr"), Entry("en")>>,
              <<Entry("de"), Entry("fr")>> }

\* values of the source-language selector the user can choose
SourceChoices == { "", "fr" }

\* optional error strings of a success:false response
Errors == { <<>>, <<"">>, <<"quota exceeded">> }

\* How a request can end.  "neterr": fetch rejects.  "badjson": r.json()
\* rejects.  "json": a JSON object arrives, its fields in the record.
HealthResponses ==
    { [kind |-> "neterr"], [kind |-> "badjson"] }
    \cup { [kind |-> "json", status |-> s] : s \in { <<"healthy">>, <<"degraded">> } }

LangsResponses ==
    { [kind |-> "neterr"] }
    \cup { [kind |-> "json", languages |-> <<m>>, total |-> Len(m)] : m \in LangMaps }
    \cup { [kind |-> "json", languages |-> <<>>, total |-> 0] }

TranslateResponses ==
    { [kind |-> "neterr"], [kind |-> "badjson"] }
    \cup { [kind |-> "json", success |-> TRUE, translated_text |-> t,
            source_language |-> s, target_language |-> d, error |-> <<>>]
           : t \in ServerTexts, s \in {"fr"}, d \in {"en"} }
    \cup { [kind |-> "json", success |-> FALSE, translated_text |-> <<>>,
            source_language |-> "", target_language |-> "", error |-> e]
           : e \in Errors }

SttResponses ==
    { [kind |-> "neterr"], [kind |-> "badjson"] }
    \cup { [kind |-> "json", success |-> TRUE, text |-> <<"s">>, error |-> <<>>] }
    \cup { [kind |-> "json", success |-> FALSE, text |-> <<>>, error |-> e] : e \in Errors }

TtsResponses ==
    { [kind |-> "neterr"], [kind |-> "badjson"] }
    \cup { [kind |-> "json", success |-> TRUE, audio_url |-> <<"/audio/1.mp3">>,
            error |-> <<>>] }
    \cup { [kind |-> "json", success |-> TRUE, audio_url |-> u, error |-> e]
           : u \in { <<>>, <<"">> }, e \in { <<>>, <<"quota exceeded">> } }
    \cup { [kind |-> "json", success |-> FALSE, audio_url |-> <<>>, error |-> e]
           : e \in Errors }

----------------------------------------------------------------------------
VARIABLES
    pc,          \* pc[i]: where IIFE i's DOMContentLoaded listener is
    listeners,   \* the IIFEs whose click listeners are registered, in order
    net,         \* requests in flight, in the order they were issued
    healthEl,    \* #health: [textContent, className]
    srcText,     \* #sourceText.value
    outText,     \* #translatedText.value
    srcLang,     \* #sourceLang.value
    tgtLang,     \* #targetLang: [options, sel]
    langInfo,    \* #langInfo.textContent
    alerts,      \* #alerts: its child elements
    audioInput,  \* #audioInput.files: the selected files
    ttsText,     \* #ttsText.value
    ttsAudio,    \* #ttsAudio: [src, display, played]
    statusBar,   \* #statusBar: [textContent, className, display]
    userSelect,  \* style.userSelect of the textareas
    timers,      \* pending setTimeout callbacks: how many of each <<fn, ms>>
    unhandled,   \* whether a promise of a handler was rejected
    events,      \* number of clicks, edits and choices of the user so far
    last,        \* the event handled last, with its inputs
    loaded,      \* history: the language map loaded last, <<>> if none
    lastAlert,   \* history: the element of the most recent showAlert call
    shown,       \* history: the clicks whose translations were handled: [cur, max]
    latest       \* history: <<ms>> while the timer of the latest showStatus
                 \* call is pending, ms its duration; <<>> otherwise

vars == << pc, listeners, net, healthEl, srcText, outText, srcLang, tgtLang,
           langInfo, alerts, audioInput, ttsText, ttsAudio, statusBar,
           userSelect, timers, unhandled, events, last, loaded, lastAlert,
           shown, latest >>

----------------------------------------------------------------------------
\* The state the handlers read and write, as one record, so that the
\* handlers of one event compose in the order the browser calls them.
Cur ==
    [ net |-> net, healthEl |-> healthEl, srcText |-> srcText,
      outText |-> outText, srcLang |-> srcLang, tgtLang |-> tgtLang,
      langInfo |-> langInfo, alerts |-> alerts, audioInput |-> audioInput,
      ttsText |-> ttsText, ttsAudio |-> ttsAudio, statusBar |-> statusBar,
      userSelect |-> userSelect, timers |-> timers, unhandled |-> unhandled,
      loaded |-> loaded, lastAlert |-> lastAlert, shown |-> shown,
      latest |-> latest ]

Commit(S) ==
    /\ net' = S.net
    /\ healthEl' = S.healthEl
    /\ srcText' = S.srcText
    /\ outText' = S.outText
    /\ srcLang' = S.srcLang
    /\ tgtLang' = S.tgtLang
    /\ langInfo' = S.langInfo
    /\ alerts' = S.alerts
    /\ audioInput' = S.audioInput
    /\ ttsText' = S.ttsText
    /\ ttsAudio' = S.ttsAudio
    /\ statusBar' = S.statusBar
    /\ userSelect' = S.userSelect
    /\ timers' = S.timers
    /\ unhandled' = S.unhandled
    /\ loaded' = S.loaded
    /\ lastAlert' = S.lastAlert
    /\ shown' = S.shown
    /\ latest' = S.latest

Start(S) ==
    /\ net = S.net
    /\ healthEl = S.healthEl
    /\ srcText = S.srcText
    /\ outText = S.outText
    /\ srcLang = S.srcLang
    /\ tgtLang = S.tgtLang
    /\ langInfo = S.langInfo
    /\ alerts = S.alerts
    /\ audioInput = S.audioInput
    /\ ttsText = S.ttsText
    /\ ttsAudio = S.ttsAudio
    /\ statusBar = S.statusBar
    /\ userSelect = S.userSelect
    /\ timers = S.timers
    /\ unhandled = S.unhandled
    /\ loaded = S.loaded
    /\ lastAlert = S.lastAlert
    /\ shown = S.shown
    /\ latest = S.latest

\* The callbacks the file passes to setTimeout, each with its delay: the
\* hiding of the status bar after showStatus's duration (2000 in swap and
\* clearAll, 2500 in the welcome, 3000 by default) and the welcome after 1000.
Timers == { <<"hide", 2000>>, <<"hide", 2500>>, <<"hide", 3000>>, <<"welcome", 1000>> }

\* The page before DOMContentLoaded (lines 10-21, 258-268): empty fields, an
\* empty target selector, nothing in flight.
Page ==
    [ net |-> <<>>,
      healthEl |-> [textContent |-> "", className |-> <<>>],
      srcText |-> <<>>, outText |-> <<>>, srcLang |-> "",
      tgtLang |-> [options |-> <<>>, sel |-> 0],
      langInfo |-> <<>>, alerts |-> <<>>, audioInput |-> <<>>,
      ttsText |-> <<>>,
      ttsAudio |-> [src |-> "", display |-> "none", played |-> FALSE],
      statusBar |-> [textContent |-> "", className |-> <<>>, display |-> "none"],
      userSelect |-> "", timers |-> [t \in Timers |-> 0], unhandled |-> FALSE,
      loaded |-> <<>>, lastAlert |-> <<>>, shown |-> [cur |-> 0, max |-> 0],
      latest |-> <<>> ]

Init ==
    /\ pc = [i \in IIFEs |-> "start"]
    /\ listeners = <<>>
    /\ events = 0
    /\ last = [ev |-> "none"]
    /\ Start(Page)

\* fetch(url, ...): the request is in flight until its response is handled
fetch(S, i, url, body, click) ==
    [S EXCEPT !.net = Append(@, [ep |-> url, iife |-> i, body |-> body, click |-> click])]

\* setTimeout(fn, ms): one more pending call of fn after ms
setTimeout(S, fn, ms) == [S EXCEPT !.timers[<<fn, ms>>] = @ + 1]

\* showStatus (lines 24-32)
showStatus(S, message, type, duration) ==
    setTimeout([S EXCEPT !.statusBar = [textContent |-> message,
                                        className   |-> <<"status-bar", type>>,
                                        display     |-> "block"],
                         !.latest = <<duration>>],
               "hide", duration)

\* The second closure has no status bar: its handlers are those of the first
\* without the showStatus calls.
status(S, i, message, type, duration) ==
    IF i = 1 THEN showStatus(S, message, type, duration) ELSE S

\* setBadge (lines 86-89, 270-273)
setBadge(S, text, ok) ==
    [S EXCEPT !.healthEl = [textContent |-> text,
                            className   |-> <<"badge">> \o (IF ok THEN <<>> ELSE <<"alert">>)]]

\* Mutant of showAlert: the alert area is not emptied first.
showAlertAppend(S, msg, type) ==
    LET d == [className |-> type, textContent |-> msg]
    IN  [S EXCEPT !.alerts = Append(@, d), !.lastAlert = <<d>>]

\* showAlert (lines 101-107, 285-291)
showAlert(S, msg, type) ==
    LET d == [className |-> type, textContent |-> msg]
    IN  [S EXCEPT !.alerts = Append(<<>>, d), !.lastAlert = <<d>>]

\* Mutant of checkHealth: any JSON answer counts as healthy.
checkHealthAnyJson(S, r) ==
    IF r.kind # "json"
      THEN [s |-> setBadge(S, "Server unreachable", FALSE), ok |-> TRUE]
      ELSE [s |-> setBadge(S, "Server ok", TRUE), ok |-> TRUE]

\* checkHealth after its fetch has settled with r (lines 91-99, 275-283).
\* The result is the state and whether the function's promise is fulfilled.
checkHealth(S, r) ==
    IF r.kind # "json"
      THEN [s |-> setBadge(S, "Server unreachable", FALSE), ok |-> TRUE]
      ELSE IF r.status = <<"healthy">>
             THEN [s |-> setBadge(S, "Server ok", TRUE), ok |-> TRUE]
             ELSE [s |-> setBadge(S, "Server issue", FALSE), ok |-> TRUE]

\* <select>.value: the value of the selected option, "" when there is none
value(sel) == IF sel.sel = 0 THEN "" ELSE sel.options[sel.sel].value

\* tgtLang.appendChild(opt) on a drop-down selector: an option appended with
\* selected = true becomes the selected one; otherwise the selection stays,
\* and the first option is selected when none was.
appendChild(sel, opt, selected) ==
    [options |-> Append(sel.options, opt),
     sel     |-> IF selected THEN Len(sel.options) + 1
                 ELSE IF sel.sel = 0 THEN 1 ELSE sel.sel]

\* the forEach of loadLanguages (lines 114-119, 298-303)
RECURSIVE forEachEntry(_, _)
forEachEntry(sel, entries) ==
    IF entries = <<>> THEN sel
    ELSE LET code == Head(entries)[1]
             name == Head(entries)[2]
             opt  == [value |-> code, textContent |-> name]
         IN  forEachEntry(appendChild(sel, opt, code = "en"), Tail(entries))

\* Mutant of clearOptions: the old options stay.
clearOptionsNone(sel) == sel

\* tgtLang.innerHTML = '' (lines 113, 297)
clearOptions(sel) == [options |-> <<>>, sel |-> 0]

\* Mutant of loadLanguages: no try/catch, a failure rejects the promise.
loadLanguagesNoCatch(S, r) ==
    IF r.kind # "json"
      THEN [s |-> S, ok |-> FALSE]
      ELSE LET S1 == [S EXCEPT !.tgtLang = clearOptions(@)]
           IN  IF r.languages = <<>>
                 THEN [s |-> S1, ok |-> FALSE]
                 ELSE [s |-> [S1 EXCEPT
                                !.tgtLang = forEachEntry(@, r.languages[1]),
                                !.langInfo = <<"Loaded ", r.total, " languages.">>,
                                !.loaded = r.languages],
                       ok |-> TRUE]

\* loadLanguages after its fetch has settled with r (lines 109-124, 293-308).
\* Object.entries(undefined) throws after the selector has been emptied.
loadLanguages(S, r) ==
    IF r.kind # "json"
      THEN [s |-> showAlert(S, "Failed to load languages", "alert"), ok |-> TRUE]
      ELSE LET S1 == [S EXCEPT !.tgtLang = clearOptions(@)]
           IN  IF r.languages = <<>>
                 THEN [s |-> showAlert(S1, "Failed to load languages", "alert"), ok |-> TRUE]
                 ELSE [s |-> [S1 EXCEPT
                                !.tgtLang = forEachEntry(@, r.languages[1]),
                                !.langInfo = <<"Loaded ", r.total, " languages.">>,
                                !.loaded = r.languages],
                       ok |-> TRUE]

----------------------------------------------------------------------------
\* The click handlers, up to their first await, and their continuations

\* Mutant of sourceOf: no 'auto' when no source language is selected.
sourceOfNoAuto(S) == S.srcLang

\* srcLang.value || 'auto' (lines 128, 312)
sourceOf(S) == IF S.srcLang # "" THEN S.srcLang ELSE "auto"

\* tgtLang.value || 'en' (lines 196, 366)
languageOf(S) == IF value(S.tgtLang) # "" THEN value(S.tgtLang) ELSE "en"

\* the text translate submits (lines 127, 311)
translateText(S) == trim(OrText(S.srcText, <<>>))

\* the text tts submits (lines 195, 365)
ttsSubmitText(S) == trim(OrText(OrText(S.ttsText, S.srcText), <<>>))

\* translate up to its fetch (lines 126-139, 310-320)
translate(S, i, click) ==
    LET text   == translateText(S)
        source == sourceOf(S)
        target == value(S.tgtLang)
    IN  IF text = <<>>
          THEN showAlert(S, "Please enter text to translate", "alert")
          ELSE fetch(status(S, i, "Translating...", "info", 3000), i, api.translate,
                     [text |-> text, source |-> source, target |-> target], click)

\* Mutant of translateSettled: source and target language are exchanged in
\* the language-info line.
translateSettledSwapped(S, req, r) ==
    LET i == req.iife
    IN  IF r.kind # "json"
          THEN status(showAlert(S, "Network error", "alert"), i,
                      "Network error", "error", 3000)
          ELSE IF r.success
                 THEN status([S EXCEPT
                                !.outText = r.translated_text,
                                !.langInfo = <<"Detected: ", r.target_language,
                                               " -> ", r.source_language>>,
                                !.shown = [cur |-> req.click,
                                           max |-> IF req.click > @.max
                                                     THEN req.click ELSE @.max]],
                             i, "Translated", "success", 3000)
                 ELSE status(showAlert(S, OrStr(r.error, "Translation failed"), "alert"),
                             i, "Translation failed", "error", 3000)

\* Mutant of translateSettled: the response to an earlier click than the one
\* already displayed is dropped.
translateSettledLatestOnly(S, req, r) ==
    LET i == req.iife
    IN  IF r.kind # "json"
          THEN status(showAlert(S, "Network error", "alert"), i,
                      "Network error", "error", 3000)
          ELSE IF r.success
                 THEN IF req.click < S.shown.max
                        THEN S
                        ELSE status([S EXCEPT
                                       !.outText = r.translated_text,
                                       !.langInfo = <<"Detected: ", r.source_language,
                                                      " -> ", r.target_language>>,
                                       !.shown = [cur |-> req.click, max |-> req.click]],
                                    i, "Translated", "success", 3000)
                 ELSE status(showAlert(S, OrStr(r.error, "Translation failed"), "alert"),
                             i, "Translation failed", "error", 3000)

\* Mutant of translateSettled: a failure empties the translated text.
translateSettledClearing(S, req, r) ==
    LET i  == req.iife
        S0 == [S EXCEPT !.outText = <<>>]
    IN  IF r.kind # "json"
          THEN status(showAlert(S0, "Network error", "alert"), i,
                      "Network error", "error", 3000)
          ELSE IF r.success
                 THEN status([S EXCEPT
                                !.outText = r.translated_text,
                                !.langInfo = <<"Detected: ", r.source_language,
                                               " -> ", r.target_language>>,
                                !.shown = [cur |-> req.click,
                                           max |-> IF req.click > @.max
                                                     THEN req.click ELSE @.max]],
                             i, "Translated", "success", 3000)
                 ELSE status(showAlert(S0, OrStr(r.error, "Translation failed"), "alert"),
                             i, "Translation failed", "error", 3000)

\* translate after its fetch has settled with r (lines 140-152, 321-330)
translateSettled(S, req, r) ==
    LET i == req.iife
    IN  IF r.kind # "json"
          THEN status(showAlert(S, "Network error", "alert"), i,
                      "Network error", "error", 3000)
          ELSE IF r.success
                 THEN status([S EXCEPT
                                !.outText = r.translated_text,
                                !.langInfo = <<"Detected: ", r.source_language,
                                               " -> ", r.target_language>>,
                                !.shown = [cur |-> req.click,
                                           max |-> IF req.click > @.max
                                                     THEN req.click ELSE @.max]],
                             i, "Translated", "success", 3000)
                 ELSE status(showAlert(S, OrStr(r.error, "Translation failed"), "alert"),
                             i, "Translation failed", "error", 3000)

\* swap (lines 155-160, 333-337)
swap(S, i) ==
    LET tmp == S.srcText
    IN  status([S EXCEPT !.srcText = S.outText, !.outText = OrText(tmp, <<>>)],
               i, "Texts swapped", "info", 2000)

\* clearAll (lines 162-168, 339-344)
clearAll(S, i) ==
    status([S EXCEPT !.srcText = <<>>, !.outText = <<>>, !.alerts = <<>>,
                     !.langInfo = <<>>],
           i, "All texts cleared", "info", 2000)

\* Mutant of stt: no check that a file is selected.
sttUnguarded(S, i, click) ==
    fetch(status(S, i, "Transcribing...", "info", 3000), i, api.stt,
          [audio |-> OrStr(S.audioInput, "undefined")], click)

\* stt up to its fetch (lines 170-178, 346-351)
stt(S, i, click) ==
    IF S.audioInput = <<>>
      THEN showAlert(S, "Select an audio file", "alert")
      ELSE fetch(status(S, i, "Transcribing...", "info", 3000), i, api.stt,
                 [audio |-> S.audioInput[1]], click)

\* Mutant of sttSettled: the transcript goes to the translated text as well.
sttSettledBothFields(S, req, r) ==
    LET i == req.iife
    IN  IF r.kind # "json"
          THEN status(showAlert(S, "Network error", "alert"), i,
                      "Network error", "error", 3000)
          ELSE IF r.success
                 THEN status(showAlert([S EXCEPT !.srcText = r.text, !.outText = r.text],
                                       "Transcribed successfully", "success"),
                             i, "Transcribed", "success", 3000)
                 ELSE status(showAlert(S, OrStr(r.error, "STT failed"), "alert"),
                             i, "Transcription failed", "error", 3000)

\* stt after its fetch has settled with r (lines 179-191, 352-361)
sttSettled(S, req, r) ==
    LET i == req.iife
    IN  IF r.kind # "json"
          THEN status(showAlert(S, "Network error", "alert"), i,
                      "Network error", "error", 3000)
          ELSE IF r.success
                 THEN status(showAlert([S EXCEPT !.srcText = r.text],
                                       "Transcribed successfully", "success"),
                             i, "Transcribed", "success", 3000)
                 ELSE status(showAlert(S, OrStr(r.error, "STT failed"), "alert"),
                             i, "Transcription failed", "error", 3000)

\* tts up to its fetch (lines 194-206, 364-373)
tts(S, i, click) ==
    LET text     == ttsSubmitText(S)
        language == languageOf(S)
    IN  IF text = <<>>
          THEN showAlert(S, "Enter text for TTS", "alert")
          ELSE fetch(status(S, i, "Synthesizing...", "info", 3000), i, api.tts,
                     [text |-> text, language |-> language], click)

\* Mutant of ttsSettled: success alone counts, audio_url is not looked at.
ttsSettledSuccessOnly(S, req, r) ==
    LET i == req.iife
    IN  IF r.kind # "json"
          THEN status(showAlert(S, "Network error", "alert"), i,
                      "Network error", "error", 3000)
          ELSE IF r.success
                 THEN status([S EXCEPT !.ttsAudio = [src |-> OrStr(r.audio_url, "undefined"),
                                                     display |-> "",
                                                     played |-> TRUE]],
                             i, "Synthesized", "success", 3000)
                 ELSE status(showAlert(S, OrStr(r.error, "TTS failed"), "alert"),
                             i, "Synthesis failed", "error", 3000)

\* tts after its fetch has settled with r (lines 207-220, 374-384)
ttsSettled(S, req, r) ==
    LET i == req.iife
    IN  IF r.kind # "json"
          THEN status(showAlert(S, "Network error", "alert"), i,
                      "Network error", "error", 3000)
          ELSE IF r.success /\ Truthy(r.audio_url)
                 THEN status([S EXCEPT !.ttsAudio = [src |-> r.audio_url[1],
                                                     display |-> "",
                                                     played |-> TRUE]],
                             i, "Synthesized", "success", 3000)
                 ELSE status(showAlert(S, OrStr(r.error, "TTS failed"), "alert"),
                             i, "Synthesis failed", "error", 3000)

----------------------------------------------------------------------------
\* Events

Remove(q, k) == SubSeq(q, 1, k - 1) \o SubSeq(q, k + 1, Len(q))

\* the number of pending setTimeout callbacks
pendingTimers(S) ==
    S.timers[<<"hide", 2000>>] + S.timers[<<"hide", 2500>>]
        + S.timers[<<"hide", 3000>>] + S.timers[<<"welcome", 1000>>]

\* A step is taken only while the pending timers fit the bound.
Apply(S) == pendingTimers(S) <= MaxTimers /\ Commit(S)

\* The click handler IIFE i registered for a button (lines 232-236, 391-395)
handler(S, i, btn, click) ==
    CASE btn = "btnTranslate" -> translate(S, i, click)
      [] btn = "btnSwap"      -> swap(S, i)
      [] btn = "btnClear"     -> clearAll(S, i)
      [] btn = "btnSTT"       -> stt(S, i, click)
      [] btn = "btnTTS"       -> tts(S, i, click)

\* A click event: the registered listeners run in the order of registration.
RECURSIVE dispatch(_, _, _, _)
dispatch(S, ls, btn, click) ==
    IF ls = <<>> THEN S
    ELSE dispatch(handler(S, Head(ls), btn, click), Tail(ls), btn, click)

ClickUpTo(btn, max) ==
    /\ events < max
    /\ events' = events + 1
    /\ last' = [ev |-> "click", btn |-> btn]
    /\ Apply(dispatch(Cur, listeners, btn, events + 1))
    /\ UNCHANGED <<pc, listeners>>

Click(btn) == ClickUpTo(btn, MaxEvents)

ClickTranslate == Click("btnTranslate")
ClickSwap      == Click("btnSwap")
ClickClear     == Click("btnClear")
ClickSTT       == Click("btnSTT")
ClickTTS       == Click("btnTTS")

\* the page when both DOMContentLoaded listeners have run up to the fetch of
\* checkHealth (lines 224-225, 93 and 388-389, 277), the first closure's first
loading(S) == fetch(fetch(S, 1, api.health, <<>>, 0), 2, api.health, <<>>, 0)

DOMContentLoaded ==
    /\ \A i \in IIFEs : pc[i] = "start"
    /\ pc' = [i \in IIFEs |-> "checkHealth"]
    /\ last' = [ev |-> "DOMContentLoaded"]
    /\ Apply(loading(Cur))
    /\ UNCHANGED <<listeners, events>>

\* the page without its k-th request in flight
settle(S, k) == [S EXCEPT !.net = Remove(@, k)]

\* A listener from the answer r to its health request to its next await:
\* checkHealth finishes and loadLanguages fetches (lines 225-226, 389-390).
afterHealth(S, i, r) ==
    LET res == checkHealth(S, r)
    IN  IF res.ok
          THEN [s |-> fetch(res.s, i, api.langs, <<>>, 0), pc |-> "loadLanguages"]
          ELSE [s |-> [res.s EXCEPT !.unhandled = TRUE], pc |-> "rejected"]

HealthSettles ==
    \E k \in 1..Len(net), r \in HealthResponses :
        /\ net[k].ep = api.health
        /\ LET i   == net[k].iife
               res == afterHealth(settle(Cur, k), i, r)
           IN  /\ last' = [ev |-> "settled", ep |-> api.health, iife |-> i, resp |-> r]
               /\ pc' = [pc EXCEPT ![i] = res.pc]
               /\ Apply(res.s)
        /\ UNCHANGED <<listeners, events>>

\* the rest of a DOMContentLoaded listener (lines 229-245, 391-395)
register(S, i) ==
    IF i = 1
      THEN setTimeout([S EXCEPT !.userSelect = "text"], "welcome", 1000)
      ELSE S

\* Mutant of afterLanguages: the handlers are registered only when a language
\* map was loaded.
afterLanguagesLoadedOnly(S, i, r) ==
    LET res == loadLanguages(S, r)
    IN  IF r.kind = "json" /\ r.languages # <<>>
          THEN [s |-> register(res.s, i), pc |-> "registered"]
          ELSE [s |-> res.s, pc |-> "rejected"]

\* A listener from the answer r to its languages request to its end:
\* loadLanguages finishes and the click handlers are registered.
afterLanguages(S, i, r) ==
    LET res == loadLanguages(S, r)
    IN  IF res.ok
          THEN [s |-> register(res.s, i), pc |-> "registered"]
          ELSE [s |-> [res.s EXCEPT !.unhandled = TRUE], pc |-> "rejected"]

LanguagesSettle ==
    \E k \in 1..Len(net), r \in LangsResponses :
        /\ net[k].ep = api.langs
        /\ LET i   == net[k].iife
               res == afterLanguages(settle(Cur, k), i, r)
           IN  /\ last' = [ev |-> "settled", ep |-> api.langs, iife |-> i, resp |-> r]
               /\ pc' = [pc EXCEPT ![i] = res.pc]
               /\ listeners' = IF res.pc = "registered"
                                 THEN Append(listeners, i) ELSE listeners
               /\ Apply(res.s)
        /\ UNCHANGED events

\* A request of a click handler settles and the handler finishes.
Settles(ep, responses) ==
    \E k \in 1..Len(net), r \in responses :
        /\ net[k].ep = ep
        /\ LET req == net[k]
               S0  == settle(Cur, k)
           IN  /\ last' = [ev |-> "settled", ep |-> ep, iife |-> req.iife, resp |-> r]
               /\ Apply(CASE ep = api.translate -> translateSettled(S0, req, r)
                          [] ep = api.stt       -> sttSettled(S0, req, r)
                          [] ep = api.tts       -> ttsSettled(S0, req, r))
        /\ UNCHANGED <<pc, listeners, events>>

TranslateSettles == Settles(api.translate, TranslateResponses)
SttSettles       == Settles(api.stt, SttResponses)
TtsSettles       == Settles(api.tts, TtsResponses)

\* A timer fires: the callback of showStatus hides the status bar (lines
\* 29-31); the welcome callback shows the welcome message (lines 243-245).
\* Timers of one delay fire in the order they were set, so the timer of the
\* latest showStatus call is the last of its delay to fire.
Timeout ==
    \E t \in Timers :
        LET fn == t[1]
            S0 == [Cur EXCEPT !.timers[t] = @ - 1,
                              !.latest = IF fn = "hide" /\ @ = <<t[2]>> /\ timers[t] = 1
                                           THEN <<>> ELSE @]
        IN  /\ timers[t] > 0
            /\ last' = [ev |-> "timeout", fn |-> fn]
            /\ Apply(IF fn = "hide"
                       THEN [S0 EXCEPT !.statusBar.display = "none"]
                       ELSE showStatus(S0, "Welcome", "info", 2500))
            /\ UNCHANGED <<pc, listeners, events>>

\* The user edits a field or makes a choice.
Input(S) ==
    /\ S # Cur
    /\ events < MaxEvents
    /\ events' = events + 1
    /\ last' = [ev |-> "input"]
    /\ Commit(S)
    /\ UNCHANGED <<pc, listeners>>

TypeSource   == \E t \in UserTexts : Input([Cur EXCEPT !.srcText = t])
TypeTts      == \E t \in UserTexts : Input([Cur EXCEPT !.ttsText = t])
SelectSource == \E c \in SourceChoices : Input([Cur EXCEPT !.srcLang = c])
SelectTarget == \E k \in 1..Len(tgtLang.options) : Input([Cur EXCEPT !.tgtLang.sel = k])
ChooseAudio  == \E f \in { <<>>, <<"clip.wav">> } : Input([Cur EXCEPT !.audioInput = f])

Next ==
    \/ DOMContentLoaded
    \/ HealthSettles
    \/ LanguagesSettle
    \/ ClickTranslate
    \/ ClickSwap
    \/ ClickClear
    \/ ClickSTT
    \/ ClickTTS
    \/ TranslateSettles
    \/ SttSettles
    \/ TtsSettles
    \/ Timeout
    \/ TypeSource
    \/ TypeTts
    \/ SelectSource
    \/ SelectTarget
    \/ ChooseAudio

Spec == Init /\ [][Next]_vars

----------------------------------------------------------------------------
\* Page load alone: the two listeners, the timers, and a user who chooses a
\* target language and clicks the buttons without having entered anything.

NextLoad ==
    \/ DOMContentLoaded
    \/ HealthSettles
    \/ LanguagesSettle
    \/ Timeout
    \/ SelectTarget
    \/ ClickTranslate
    \/ ClickSwap
    \/ ClickClear
    \/ ClickSTT
    \/ ClickTTS

SpecLoad == Init /\ [][NextLoad]_vars

----------------------------------------------------------------------------
\* The session alone: the user's events and the requests of the click
\* handlers, from pages at several points of the page load.

healthy == [kind |-> "json", status |-> <<"healthy">>]

languages(m) == [kind |-> "json", languages |-> <<m>>, total |-> Len(m)]

\* the index of IIFE i's request to ep among those in flight
pending(S, i, ep) ==
    CHOOSE k \in 1..Len(S.net) : S.net[k].iife = i /\ S.net[k].ep = ep

\* IIFE i's listener run to its end, its health request answered by h and
\* its languages request by l
loadedBy(S, i, h, l) ==
    LET S1 == afterHealth(settle(S, pending(S, i, api.health)), i, h).s
    IN  afterLanguages(settle(S1, pending(S1, i, api.langs)), i, l).s

\* Pages the load can leave the session with: no handler registered yet; the
\* first closure's only, its language loading having failed; both, with the
\* map {fr, en}; both, the second closure's first, the map loaded last being
\* empty.
Snapshots ==
    LET P0 == loading(Page)
        fe == <<Entry("fr"), Entry("en")>>
        df == <<Entry("de"), Entry("fr")>>
    IN  { [page |-> P0, pc |-> <<"checkHealth", "checkHealth">>, listeners |-> <<>>],
          [page |-> loadedBy(P0, 1, healthy, [kind |-> "neterr"]),
           pc |-> <<"registered", "checkHealth">>, listeners |-> <<1>>],
          [page |-> loadedBy(loadedBy(P0, 1, healthy, languages(fe)),
                             2, healthy, languages(fe)),
           pc |-> <<"registered", "registered">>, listeners |-> <<1, 2>>],
          [page |-> loadedBy(loadedBy(P0, 2, healthy, languages(df)),
                             1, [kind |-> "neterr"], languages(<<>>)),
           pc |-> <<"registered", "registered">>, listeners |-> <<2, 1>>] }

InitSession ==
    \E snap \in Snapshots :
        /\ pc = snap.pc
        /\ listeners = snap.listeners
        /\ events = 0
        /\ last = [ev |-> "none"]
        /\ Start(snap.page)

NextSession ==
    \/ ClickTranslate
    \/ ClickSwap
    \/ ClickClear
    \/ ClickSTT
    \/ ClickTTS
    \/ TranslateSettles
    \/ SttSettles
    \/ TtsSettles
    \/ Timeout
    \/ TypeSource
    \/ TypeTts
    \/ SelectSource
    \/ SelectTarget
    \/ ChooseAudio

SpecSession == InitSession /\ [][NextSession]_vars

----------------------------------------------------------------------------
\* Overlapping translations: the loaded page with a source text typed in, and
\* Translate clicked up to MaxOverlapClicks times.

InitOverlap ==
    /\ pc = [i \in IIFEs |-> "registered"]
    /\ listeners = <<1, 2>>
    /\ events = 0
    /\ last = [ev |-> "none"]
    /\ LET fe == <<Entry("fr"), Entry("en")>>
           P  == loadedBy(loadedBy(loading(Page), 1, healthy, languages(fe)),
                          2, healthy, languages(fe))
       IN  \E t \in UserTexts : Start([P EXCEPT !.srcText = t])

ClickTranslateAgain == ClickUpTo("btnTranslate", MaxOverlapClicks)

NextOverlap ==
    \/ ClickTranslateAgain
    \/ TranslateSettles
    \/ Timeout

SpecOverlap == InitOverlap /\ [][NextOverlap]_vars

----------------------------------------------------------------------------
\* Text to speech alone: the loaded page with a source text typed in, a user
\* who edits the TTS field and clicks the TTS button.

NextTts ==
    \/ TypeTts
    \/ ClickTTS
    \/ TtsSettles
    \/ Timeout

SpecTts == InitOverlap /\ [][NextTts]_vars

----------------------------------------------------------------------------
\* Properties

\* a text with no character other than spaces
Blank(t) == \A k \in 1..Len(t) : t[k] = " "

\* the text a TTS click submits, before trimming
TtsSource == IF ttsText # <<>> THEN ttsText ELSE srcText

\* the one element the alert area holds after showAlert(msg)
AlertOf(msg) == <<[className |-> "alert", textContent |-> msg]>>

IsClick(e, btn) == e.ev = "click" /\ e.btn = btn

IsSettled(e, ep) == e.ev = "settled" /\ e.ep = ep

\* a response that says success:false
SaysFailure(r) == r.kind = "json" /\ ~r.success

\* C1 (as amended): once click handlers are registered, a click on Translate
\* or TTS whose text to submit is empty or only whitespace issues no request
\* and leaves the prompt as the one alert of the alert area.
C1_EmptySubmitPrompts ==
    [][ /\ (IsClick(last', "btnTranslate") /\ listeners # <<>> /\ Blank(srcText))
             => (net' = net /\ alerts' = AlertOf("Please enter text to translate"))
        /\ (IsClick(last', "btnTTS") /\ listeners # <<>> /\ Blank(TtsSource))
             => (net' = net /\ alerts' = AlertOf("Enter text for TTS")) ]_vars

\* C1, witness: both closures handled a Translate click on a source text of
\* one space: the prompt is shown and nothing is in flight.
C1_Witness ==
    /\ IsClick(last, "btnTranslate")
    /\ Len(listeners) = 2
    /\ srcText = <<" ">>
    /\ net = <<>>
    /\ alerts = AlertOf("Please enter text to translate")

\* C1 (as stated): every click on Translate or TTS whose text to submit is
\* empty or only whitespace issues no request and shows the prompt.
C1_EveryEmptyClickPrompts ==
    [][ /\ (IsClick(last', "btnTranslate") /\ Blank(srcText))
             => (net' = net /\ alerts' = AlertOf("Please enter text to translate"))
        /\ (IsClick(last', "btnTTS") /\ Blank(TtsSource))
             => (net' = net /\ alerts' = AlertOf("Enter text for TTS")) ]_vars

\* C2: a click on Translate, STT or TTS with valid input, handled by the
\* registered click handlers, issues exactly one request, and the handling of
\* a response issues none.
C2_OneRequestPerClick ==
    [][ /\ ( /\ last'.ev = "click"
             /\ listeners # <<>>
             /\ \/ last'.btn = "btnTranslate" /\ ~Blank(srcText)
                \/ last'.btn = "btnSTT" /\ audioInput # <<>>
                \/ last'.btn = "btnTTS" /\ ~Blank(TtsSource) )
             => Len(net') = Len(net) + 1
        /\ (last'.ev = "settled" /\ last'.ep \in {api.translate, api.stt, api.tts})
             => Len(net') = Len(net) - 1 ]_vars

\* C3: when a translate response with success true has been handled, the
\* translated text is the response's translated_text and the language-info
\* line is "Detected: <source_language> -> <target_language>".
C3_TranslateSuccessDisplayed ==
    (IsSettled(last, api.translate) /\ last.resp.kind = "json" /\ last.resp.success)
        => /\ outText = last.resp.translated_text
           /\ langInfo = <<"Detected: ", last.resp.source_language,
                           " -> ", last.resp.target_language>>

\* C3, witness: the second closure handled a successful translation "y".
C3_Witness ==
    /\ IsSettled(last, api.translate)
    /\ last.iife = 2
    /\ last.resp.kind = "json"
    /\ last.resp.success
    /\ last.resp.translated_text = <<"y">>
    /\ outText = <<"y">>

\* the fallback string of each endpoint
Fallback(ep) ==
    CASE ep = api.translate -> "Translation failed"
      [] ep = api.stt       -> "STT failed"
      [] ep = api.tts       -> "TTS failed"

\* C4: when a translate, speech-to-text or text-to-speech response with
\* success false has been handled, the alert area holds one alert: the
\* response's error string when it has a non-empty one, and the endpoint's
\* fallback string otherwise.
C4_FailureShowsErrorOrFallback ==
    \A ep \in {api.translate, api.stt, api.tts} :
        (IsSettled(last, ep) /\ SaysFailure(last.resp))
            => alerts = AlertOf(IF last.resp.error \notin { <<>>, <<"">> }
                                  THEN last.resp.error[1]
                                  ELSE Fallback(ep))

\* C4, witness: a speech-to-text failure with an error string is on display.
C4_Witness ==
    /\ IsSettled(last, api.stt)
    /\ SaysFailure(last.resp)
    /\ last.resp.error = <<"quota exceeded">>
    /\ alerts = AlertOf("quota exceeded")

\* a request that did not succeed: the fetch or the JSON parse failed, or the
\* answer is not the success answer of its endpoint
Failed(e) ==
    /\ e.ev = "settled"
    /\ \/ e.resp.kind # "json"
       \/ e.ep = api.health /\ e.resp.status # <<"healthy">>
       \/ e.ep = api.langs /\ e.resp.languages = <<>>
       \/ e.ep \in {api.translate, api.stt, api.tts} /\ ~e.resp.success

\* the alert string the handler of endpoint ep shows for the failed answer r
FailureMessage(ep, r) ==
    IF ep = api.langs THEN "Failed to load languages"
    ELSE IF r.kind # "json" THEN "Network error"
    ELSE IF r.error \notin { <<>>, <<"">> } THEN r.error[1]
    ELSE Fallback(ep)

\* C5 (as amended): no failure escapes its handler; when a failed languages,
\* translate, speech-to-text or text-to-speech request has been handled the
\* alert area holds the alert string of that failure, and when a failed
\* health request has been handled the health badge, not the alert area,
\* holds it ("Server unreachable" or "Server issue", class "badge alert").
C5_FailuresCaughtAndSurfaced ==
    /\ ~unhandled
    /\ \A i \in IIFEs : pc[i] # "rejected"
    /\ Failed(last) =>
         IF last.ep = api.health
           THEN healthEl = [textContent |-> IF last.resp.kind # "json"
                                              THEN "Server unreachable"
                                              ELSE "Server issue",
                            className |-> <<"badge", "alert">>]
           ELSE alerts = AlertOf(FailureMessage(last.ep, last.resp))

\* C5, witness: a languages answer without a language map has been handled:
\* the selector is empty and the alert is shown.
C5_Witness ==
    /\ IsSettled(last, api.langs)
    /\ last.resp.kind = "json"
    /\ last.resp.languages = <<>>
    /\ alerts = AlertOf("Failed to load languages")
    /\ pc[last.iife] = "registered"

\* C5 (as stated): no failure escapes its handler, and when a failed request
\* of any endpoint, health included, has been handled the alert area holds an
\* alert.
C5_EveryFailureInAlertArea ==
    /\ ~unhandled
    /\ Failed(last) => (Len(alerts) = 1 /\ alerts[1].className = "alert")

\* C6: when a health answer has been handled, the badge's class is "badge"
\* if the answer is JSON with status "healthy", and "badge alert" for any
\* other status, an unparsable answer or a network error.
C6_BadgeReflectsHealth ==
    IsSettled(last, api.health)
        => healthEl.className =
             IF last.resp.kind = "json" /\ last.resp.status = <<"healthy">>
               THEN <<"badge">>
               ELSE <<"badge", "alert">>

\* C6, witness: the second closure's health answer, status "degraded", was
\* handled after the first closure's.
C6_Witness ==
    /\ IsSettled(last, api.health)
    /\ last.iife = 2
    /\ pc[1] # "checkHealth"
    /\ last.resp.kind = "json"
    /\ last.resp.status = <<"degraded">>
    /\ healthEl.className = <<"badge", "alert">>

\* the options Object.entries order gives for a language map
OptionsOf(m) == [k \in 1..Len(m) |-> [value |-> m[k][1], textContent |-> m[k][2]]]

CodesOf(m) == { m[k][1] : k \in 1..Len(m) }

\* C7: when a languages answer with a language map has been handled, by
\* either closure and in either order, the target selector holds exactly one
\* option per entry of that map (value the code, label the name), and "en"
\* is the selected one when the map has it.
C7_SelectorIsLoadedMap ==
    (IsSettled(last, api.langs) /\ last.resp.kind = "json" /\ last.resp.languages # <<>>)
        => LET m == last.resp.languages[1]
           IN  /\ tgtLang.options = OptionsOf(m)
               /\ "en" \in CodesOf(m)
                    => /\ tgtLang.sel \in 1..Len(m)
                       /\ tgtLang.options[tgtLang.sel].value = "en"

\* C7, witness: both closures have loaded, the later answer being the map
\* {fr, en}: two options, "en" selected.
C7_Witness ==
    /\ IsSettled(last, api.langs)
    /\ \A i \in IIFEs : pc[i] = "registered"
    /\ last.resp.kind = "json"
    /\ last.resp.languages = << <<Entry("fr"), Entry("en")>> >>
    /\ Len(tgtLang.options) = 2
    /\ tgtLang.sel = 2

\* the codes of the language map loaded last, none when no map was loaded
LoadedCodes == IF loaded = <<>> THEN {} ELSE CodesOf(loaded[1])

\* C8: the target of every translate request and the language of every
\* text-to-speech request is, when the request is issued, a code of the
\* language map that was loaded.
C8_LanguageInLoadedMap ==
    [][ last'.ev = "click" =>
          \A k \in (Len(net) + 1)..Len(net') :
              /\ net'[k].ep = api.translate => net'[k].body.target \in LoadedCodes
              /\ net'[k].ep = api.tts => net'[k].body.language \in LoadedCodes ]_vars

\* C9: the alert area holds at most one element, and when it holds one it is
\* the element of the most recent showAlert call.
C9_SingleAlert ==
    /\ Len(alerts) <= 1
    /\ Len(alerts) = 1 => alerts = lastAlert

\* C9, witness: both closures handled a failed translation, the second
\* alert having replaced the first.
C9_Witness ==
    /\ IsSettled(last, api.translate)
    /\ SaysFailure(last.resp)
    /\ Len(listeners) = 2
    /\ events = 2
    /\ net = <<>>
    /\ alerts = AlertOf("Translation failed")

\* C10: a Translate click on a non-blank text while a translate request is
\* pending issues one more request per registered handler, and every
\* successful translate response, whichever click it answers, replaces the
\* translated text when it is handled.
C10_OverlapUnguarded ==
    [][ /\ ( /\ IsClick(last', "btnTranslate")
             /\ ~Blank(srcText)
             /\ \E k \in 1..Len(net) : net[k].ep = api.translate )
             => Len(net') = Len(net) + Len(listeners)
        /\ ( /\ IsSettled(last', api.translate)
             /\ last'.resp.kind = "json"
             /\ last'.resp.success )
             => outText' = last'.resp.translated_text ]_vars

\* C10, witness: no request is pending and the translated text on display is
\* the response to the first click, handled after a response to the second.
C10_Witness ==
    /\ net = <<>>
    /\ IsSettled(last, api.translate)
    /\ last.resp.kind = "json"
    /\ last.resp.success
    /\ shown = [cur |-> 1, max |-> 2]
    /\ outText = last.resp.translated_text

\* the positions of a text that hold something other than a space
NonSpace(t) == { k \in 1..Len(t) : t[k] # " " }

\* a text without its leading and trailing spaces
Trimmed(t) ==
    IF NonSpace(t) = {} THEN <<>>
    ELSE SubSeq(t, CHOOSE k \in NonSpace(t) : \A j \in NonSpace(t) : k <= j,
                   CHOOSE k \in NonSpace(t) : \A j \in NonSpace(t) : k >= j)

\* the value of the option selected in the target selector, "" without one
SelectedTarget == IF tgtLang.sel = 0 THEN "" ELSE tgtLang.options[tgtLang.sel].value

C12_TtsSuccessNeedsAudioUrl ==
    [][ ( /\ IsSettled(last', api.tts)
          /\ last'.resp.kind = "json"
          /\ last'.resp.success )
          => IF last'.resp.audio_url \notin { <<>>, <<"">> }
               THEN /\ ttsAudio'.src = last'.resp.audio_url[1]
                    /\ ttsAudio'.display = ""
                    /\ alerts' = alerts
               ELSE /\ ttsAudio' = ttsAudio
                    /\ alerts' = AlertOf(IF last'.resp.error \notin { <<>>, <<"">> }
                                           THEN last'.resp.error[1]
                                           ELSE "TTS failed") ]_vars

\* C12, witness: a response with success true and neither audio_url nor
\* error has been handled: the player is still hidden, "TTS failed" is shown.
C12_Witness ==
    /\ IsSettled(last, api.tts)
    /\ last.resp.kind = "json"
    /\ last.resp.success
    /\ last.resp.audio_url = <<>>
    /\ last.resp.error = <<>>
    /\ ttsAudio.display = "none"
    /\ alerts = AlertOf("TTS failed")

\* C13: when a speech-to-text response with success true is handled, the
\* source text becomes the response's text, the alert area holds the one
\* element "Transcribed successfully" of class "success", and the translated
\* text is left as it was.
C13_SttSuccessFillsSource ==
    [][ ( /\ IsSettled(last', api.stt)
          /\ last'.resp.kind = "json"
          /\ last'.resp.success )
          => /\ srcText' = last'.resp.text
             /\ alerts' = <<[className |-> "success",
                             textContent |-> "Transcribed successfully"]>>
             /\ outText' = outText ]_vars

\* C13, witness: the second closure handled a transcript "s" of the chosen
\* audio file.
C13_Witness ==
    /\ IsSettled(last, api.stt)
    /\ last.iife = 2
    /\ last.resp.kind = "json"
    /\ last.resp.success
    /\ audioInput # <<>>
    /\ srcText = <<"s">>
    /\ alerts[1].className = "success"

\* C14: a click on Swap, handled by the registered click handlers, exchanges
\* the source text and the translated text.
C14_SwapExchanges ==
    [][ (IsClick(last', "btnSwap") /\ listeners # <<>>)
          => (srcText' = outText /\ outText' = srcText) ]_vars

\* C15: when a failed translate request is handled (success false, an
\* unparsable answer or a network error), the translated text and the
\* language-info line are left as they were, and so is every other part of
\* the page but the alert area and the status bar.
C15_TranslateFailureFrame ==
    [][ ( /\ IsSettled(last', api.translate)
          /\ (last'.resp.kind # "json" \/ ~last'.resp.success) )
          => /\ outText' = outText
             /\ langInfo' = langInfo
             /\ UNCHANGED <<srcText, srcLang, tgtLang, ttsText, ttsAudio,
                            audioInput, healthEl, userSelect>> ]_vars

\* C15, witness: of the two requests of one click the first succeeded with
\* "x" and the second failed: "x" is still displayed, under the alert.
C15_Witness ==
    /\ IsSettled(last, api.translate)
    /\ last.resp.kind = "badjson"
    /\ net = <<>>
    /\ outText = <<"x">>
    /\ langInfo = <<"Detected: ", "fr", " -> ", "en">>
    /\ alerts = AlertOf("Network error")

\* C16: a timer that hides a visible status message whose own timer is
\* pending is that message's own timer: no timer of an earlier showStatus
\* call hides a later message before the later message's duration is over.
C16_OwnTimerHides ==
    [][ ( /\ last'.ev = "timeout"
          /\ last'.fn = "hide"
          /\ statusBar.display = "block"
          /\ latest # <<>> )
          => latest' = <<>> ]_vars

\* whether closure i has a request to ep in flight in the queue q
InFlight(q, i, ep) == \E k \in 1..Len(q) : q[k].iife = i /\ q[k].ep = ep

\* whether closure i's click handlers are among the registered ones ls
Registered(ls, i) == \E k \in 1..Len(ls) : ls[k] = i

\* what a click handler can change of the page
PageUnchanged ==
    UNCHANGED <<net, healthEl, srcText, outText, srcLang, tgtLang, langInfo,
                alerts, audioInput, ttsText, ttsAudio, statusBar, userSelect,
                timers>>

C18_TtsFallsBackToSource ==
    [][ ( /\ IsClick(last', "btnTTS")
          /\ listeners # <<>>
          /\ Blank(ttsText)
          /\ ~Blank(srcText) )
          => /\ Len(net') > Len(net)
             /\ \A k \in (Len(net) + 1)..Len(net') :
                    /\ net'[k].ep = api.tts
                    /\ net'[k].body.text = Trimmed(srcText) ]_vars

\* C19 (as amended): a click on STT with no audio file selected issues no
\* request and leaves the source text as it was; once click handlers are
\* registered it leaves "Select an audio file" as the one alert of the alert
\* area.
C19_SttWithoutFile ==
    [][ (IsClick(last', "btnSTT") /\ audioInput = <<>>)
          => /\ net' = net
             /\ srcText' = srcText
             /\ listeners # <<>> => alerts' = AlertOf("Select an audio file") ]_vars

\* C19, witness: both closures handled an STT click with no file selected and
\* a source text typed in: the alert is shown, nothing is in flight.
C19_Witness ==
    /\ IsClick(last, "btnSTT")
    /\ Len(listeners) = 2
    /\ audioInput = <<>>
    /\ srcText = <<" ", "a", " ">>
    /\ net = <<>>
    /\ alerts = AlertOf("Select an audio file")

\* C19 (as stated): every click on STT with no audio file selected issues no
\* request, shows the alert "Select an audio file" and leaves the source text
\* as it was.
C19_EveryClickWithoutFileAlerts ==
    [][ (IsClick(last', "btnSTT") /\ audioInput = <<>>)
          => /\ net' = net
             /\ srcText' = srcText
             /\ alerts' = AlertOf("Select an audio file") ]_vars

=============================================================================
